---- MODULE Spec2Model ----
(***************************************************************************)
(* Model of the timeclerk binary (src/timeclerk/src/bin/timeclerk.rs):     *)
(* the `history list` and `history edit` commands, the files they read and *)
(* write, and the race of a running command against Ctrl-C and the exit of *)
(* the background bluetooth task (the select! in main).                     *)
(*                                                                         *)
(* Files are modelled as texts: sequences of tokens.  A file that does not *)
(* exist is Absent.  Serialising a list produces tokens, parsing reads     *)
(* them back and fails on a text that is not a complete document.          *)
(***************************************************************************)
EXTENDS Integers, Sequences, FiniteSets, TLC

(* ---------------------------- bounds ----------------------------------- *)
\* largest entry id the device reports
MaxId == 2
\* cap on the number of tokens in the history file (the file only grows)
MaxHistoryLen == 3

(* ---------------------------- values ----------------------------------- *)
None == <<>>
Some(x) == <<x>>

Ids == 1..MaxId

\* facet, time and duration of a device entry; two variants that differ in all
Payloads ==
  { [facet |-> 1, time |-> 0, duration |-> 1],
    [facet |-> 2, time |-> 1, duration |-> 2] }

\* timeflippers::timeflip::Entry
Entry ==
  [id : Ids, facet : {1, 2}, time : {0, 1}, duration : {1, 2}]

MkEntry(i, p) ==
  [id |-> i, facet |-> p.facet, time |-> p.time, duration |-> p.duration]

\* the file does not exist (no text has this token)
Absent == <<[t |-> "absent"]>>

(* ------------------------- sequence helpers ---------------------------- *)
IdsOf(s) == { s[i].id : i \in 1..Len(s) }

Last(s) == s[Len(s)]

RECURSIVE SelectSeqBy(_, _)
\* the elements of s whose id is in keep, in the order of s
SelectSeqBy(s, keep) ==
  IF s = <<>> THEN <<>>
  ELSE IF Head(s).id \in keep
       THEN <<Head(s)>> \o SelectSeqBy(Tail(s), keep)
       ELSE SelectSeqBy(Tail(s), keep)

RECURSIVE Insert(_, _)
\* insertion that keeps equal ids in their original order (a stable sort)
Insert(e, s) ==
  IF s = <<>> THEN <<e>>
  ELSE IF e.id < Head(s).id THEN <<e>> \o s
       ELSE <<Head(s)>> \o Insert(e, Tail(s))

RECURSIVE SortById(_)
\* entries.sort_by(|a, b| a.id.cmp(&b.id)): stable, ascending by id
SortById(s) ==
  IF s = <<>> THEN <<>>
  ELSE Insert(s[Len(s)], SortById(SubSeq(s, 1, Len(s) - 1)))

StrictlyAscending(s) ==
  \A i \in 1..(Len(s) - 1) : s[i].id < s[i + 1].id

DistinctIds(s) ==
  \A i, j \in 1..Len(s) : i # j => s[i].id # s[j].id

(* --------------------------- JSON cache file --------------------------- *)
JOpen == [t |-> "["]
JClose == [t |-> "]"]
JEntry(e) == [t |-> "entry", e |-> e]

RECURSIVE MapJEntry(_)
MapJEntry(es) ==
  IF es = <<>> THEN <<>> ELSE <<JEntry(Head(es))>> \o MapJEntry(Tail(es))

\* serde_json::to_vec(&entries)
ToJson(es) == <<JOpen>> \o MapJEntry(es) \o <<JClose>>

RECURSIVE UnJEntry(_)
UnJEntry(ts) ==
  IF ts = <<>> THEN <<>> ELSE <<Head(ts).e>> \o UnJEntry(Tail(ts))

JsonOk(text) ==
  /\ Len(text) >= 2
  /\ text[1] = JOpen
  /\ text[Len(text)] = JClose
  /\ \A i \in 2..(Len(text) - 1) : text[i].t = "entry"

\* serde_json::from_str::<Vec<Entry>>(&s)
FromJson(text) ==
  IF JsonOk(text)
  THEN [ok |-> TRUE, val |-> UnJEntry(SubSeq(text, 2, Len(text) - 1))]
  ELSE [ok |-> FALSE, val |-> <<>>]

\* what a write of `text` leaves behind when it fails partway: a proper prefix
PartialWrites(text) == { SubSeq(text, 1, n) : n \in 0..(Len(text) - 1) }

(* ------------------------------ device --------------------------------- *)
\* the entries with the ids of S, ascending by id, payloads given by f
RECURSIVE AscendingSeq(_, _)
AscendingSeq(S, f) ==
  IF S = {} THEN <<>>
  ELSE LET m == CHOOSE x \in S : \A y \in S : x <= y
       IN <<MkEntry(m, f[m])>> \o AscendingSeq(S \ {m}, f)

\* timeflip.read_history_since(start): an ordered list of entries with
\* id >= start, possibly empty
ReadHistorySince(start) ==
  { AscendingSeq(S, f) :
      S \in SUBSET { i \in Ids : i >= start }, f \in [Ids -> Payloads] }

(* ------------------------------- merge --------------------------------- *)
\* variant: continue after the last stored entry
ListStartWithNext(start_with, loaded) ==
  IF start_with # None THEN start_with[1]
  ELSE IF loaded # <<>> THEN Last(loaded).id + 1
  ELSE 0

\* the start id `history list` passes to the device
ListStartWith(start_with, loaded) ==
  IF start_with # None THEN start_with[1]
  ELSE IF loaded # <<>> THEN Last(loaded).id
  ELSE 0

\* variant: a resent entry does not replace the stored one
MergeKeepExisting(existing, update) ==
  existing \o SelectSeqBy(update, IdsOf(update) \ IdsOf(existing))

\* variant: no retain before the append
MergeNoRetain(existing, update) == existing \o update

\* entries.retain(|entry| !new_ids.contains(&entry.id)); entries.append(&mut update)
Merge(existing, update) ==
  SelectSeqBy(existing, IdsOf(existing) \ IdsOf(update)) \o update

(* --------------------------- YAML history file ------------------------- *)
\* view of an Entry for editing (struct EntryEdit)
EntryEdit ==
  [id : Ids, facet : {"work", "2"}, start_time : {0, 1}, end_time : {1, 3},
   description : {"", "note"}]

YEntry(e) == [t |-> "entry", e |-> e]
\* the document of an empty list: "[]"
YEmpty == [t |-> "[]"]
\* a record that breaks off before its end, or any text that is not a record
YFrag == [t |-> "frag"]

RECURSIVE MapYEntry(_)
MapYEntry(es) ==
  IF es = <<>> THEN <<>> ELSE <<YEntry(Head(es))>> \o MapYEntry(Tail(es))

\* serde_yaml::to_string(&entries): a block sequence, one record per entry,
\* or the flow sequence "[]" for the empty list
ToYaml(es) == IF es = <<>> THEN <<YEmpty>> ELSE MapYEntry(es)

RECURSIVE UnYEntry(_)
UnYEntry(ts) ==
  IF ts = <<>> THEN <<>> ELSE <<Head(ts).e>> \o UnYEntry(Tail(ts))

Ok(v) == [ok |-> TRUE, val |-> v]
Err == [ok |-> FALSE, val |-> <<>>]

\* variant: a text that does not parse is read as the empty list
FromYamlLenient(text) ==
  IF text = <<>> THEN {Ok(<<>>), Err}
  ELSE IF text = <<YEmpty>> THEN {Ok(<<>>)}
  ELSE IF \A i \in 1..Len(text) : text[i].t = "entry" THEN {Ok(UnYEntry(text))}
  ELSE {Ok(<<>>)}

\* serde_yaml::from_str::<Vec<EntryEdit>>(&s): the possible results.  An empty
\* document yields the empty list or an error, depending on the serde_yaml
\* release the binary is built with.
FromYaml(text) ==
  IF text = <<>> THEN {Ok(<<>>), Err}
  ELSE IF text = <<YEmpty>> THEN {Ok(<<>>)}
  ELSE IF \A i \in 1..Len(text) : text[i].t = "entry" THEN {Ok(UnYEntry(text))}
  ELSE {Err}

\* what file.write(content) can put into the file: the whole content, or, on a
\* short write, at least one byte of it but not all (whole records of a proper
\* prefix, possibly followed by a broken-off record)
ShortWrites(text) ==
  { SubSeq(text, 1, n) \o fr :
      n \in 0..(Len(text) - 1), fr \in {<<>>, <<YFrag>>} } \ {<<>>}

WriteOutcomes(text) == {text} \cup ShortWrites(text)

\* variant: the write replaces the content of the file
AppendedTruncate(f, w) == w

\* the file content after appending w to the file f (O_APPEND | O_CREAT)
Appended(f, w) == IF f = Absent THEN w ELSE f \o w

FileLen(f) == IF f = Absent THEN 0 ELSE Len(f)

(* -------------------------- Entry -> EntryEdit ------------------------- *)
\* Config.sides[..].name: side 1 is named, side 2 is not
ConfigSideName(facet) == IF facet = 1 THEN Some("work") ELSE None

\* fn facet_name(facet, config)
facet_name(facet) ==
  IF ConfigSideName(facet) # None THEN ConfigSideName(facet)[1]
  ELSE ToString(facet)

\* EntryEdit::from_entry_with_config
from_entry_with_config(e) ==
  [id |-> e.id, facet |-> facet_name(e.facet), start_time |-> e.time,
   end_time |-> e.time + e.duration, description |-> ""]

RECURSIVE MapEntryEdit(_)
MapEntryEdit(es) ==
  IF es = <<>> THEN <<>>
  ELSE <<from_entry_with_config(Head(es))>> \o MapEntryEdit(Tail(es))

\* the start id `history edit` passes to the device
EditStartId(start_id, loaded) ==
  IF start_id # None THEN start_id[1]
  ELSE IF loaded # <<>> THEN Last(loaded).id + 1
  ELSE 1

(* ------------------------------ editor --------------------------------- *)
RECURSIVE Annotate(_)
Annotate(es) ==
  IF es = <<>> THEN <<>>
  ELSE <<[Head(es) EXCEPT !.description = "note"]>> \o Annotate(Tail(es))

\* the texts the user may leave in the scratch file, given the exported list:
\* the text unchanged, a description added to every entry, the last entry
\* removed, or something that is not a list of entries
EditorTexts(text) ==
  LET parsed == FromYaml(text) \ {Err}
  IN {text, <<YFrag>>}
       \cup { ToYaml(Annotate(r.val)) : r \in parsed }
       \cup { ToYaml(SubSeq(r.val, 1, Len(r.val) - 1)) : r \in { q \in parsed : q.val # <<>> } }

(* ------------------------------- state --------------------------------- *)
VARIABLES
  pc,           \* position of Command::run, "idle" between invocations
  cmd,          \* the parsed command line of the running invocation
  result,       \* "running", or how main ended: "ok", "err", "panic", "cancelled"
  pending,      \* file operation handed to the blocking thread pool, or "none"
  ioErr,        \* the last blocking file operation failed
  cacheFile,    \* the --update file (JSON list of Entry)
  historyFile,  \* the history file (YAML list of EntryEdit)
  scratchFile,  \* the text stored at the path of the scratch file
  tempInode,    \* the text of the file the open handle temp_file refers to
  editorStatus, \* exit code of the editor process, None while it has not exited
  entries,      \* local `entries`
  history,      \* local `history` of the edit command
  start,        \* the start id passed to read_history_since
  resp,         \* what read_history_since returned
  content,      \* local `content`: the exported text, then the re-read text
  new_entries,  \* local `new_entries`
  cache0,       \* the --update file when the invocation started
  hist0         \* the history file when the invocation started

vars ==
  <<pc, cmd, result, pending, ioErr, cacheFile, historyFile, scratchFile,
    tempInode, editorStatus, entries, history, start, resp, content,
    new_entries, cache0, hist0>>

files == <<cacheFile, historyFile, scratchFile>>
locals == <<entries, history, start, resp, content, new_entries>>

\* --start-with / --start-id
StartArgs == {None} \cup { Some(i) : i \in Ids }
\* --end-id
EndArgs == {None, Some(1)}

NoCmd == [kind |-> "none"]

Init ==
  /\ pc = "idle"
  /\ cmd = NoCmd
  /\ result = "running"
  /\ pending = "none"
  /\ ioErr = FALSE
  /\ cacheFile = Absent
  /\ historyFile = Absent
  /\ scratchFile = Absent
  /\ tempInode = Absent
  /\ editorStatus = None
  /\ entries = <<>>
  /\ history = <<>>
  /\ start = 0
  /\ resp = <<>>
  /\ content = <<>>
  /\ new_entries = <<>>
  /\ cache0 = Absent
  /\ hist0 = Absent

\* Command::run returns Err (the `?` operator): main returns the error
Fail ==
  /\ result' = "err"
  /\ pc' = "done"

(* --------------------------- history list ------------------------------ *)
\* the process is started with `history list [--update FILE] [--start-with ID]`
StartList ==
  /\ pc = "idle"
  /\ \E u \in BOOLEAN, s \in StartArgs :
       cmd' = [kind |-> "list", update |-> u, start_with |-> s]
  /\ pc' = "list_load"
  /\ cache0' = cacheFile
  /\ hist0' = historyFile
  /\ UNCHANGED <<result, pending, ioErr, files, tempInode, editorStatus, locals>>

\* reading the --update file and choosing the start id
ListLoad ==
  /\ pc = "list_load"
  /\ result = "running"
  /\ \/ /\ cmd.update
        /\ cacheFile # Absent
        /\ FromJson(cacheFile).ok
        /\ entries' = SortById(FromJson(cacheFile).val)
        /\ start' = ListStartWith(cmd.start_with, entries')
        /\ pc' = "list_fetch"
        /\ UNCHANGED result
     \/ /\ cmd.update
        /\ cacheFile # Absent
        /\ ~FromJson(cacheFile).ok
        /\ Fail
        /\ UNCHANGED <<entries, start>>
     \/ /\ cmd.update
        /\ cacheFile # Absent
        \* read_to_string fails with an error other than NotFound
        /\ Fail
        /\ UNCHANGED <<entries, start>>
     \/ /\ (~cmd.update \/ cacheFile = Absent)
        /\ entries' = <<>>
        /\ start' = ListStartWith(cmd.start_with, <<>>)
        /\ pc' = "list_fetch"
        /\ UNCHANGED result
  /\ UNCHANGED <<cmd, pending, ioErr, files, tempInode, editorStatus, history, resp, content,
                 new_entries, cache0, hist0>>

\* read_history_since, then the merge of the fetched entries into `entries`
ListFetch ==
  /\ pc = "list_fetch"
  /\ result = "running"
  /\ \/ /\ \E u \in ReadHistorySince(start) :
             /\ resp' = u
             /\ entries' = Merge(entries, u)
        /\ pc' = IF cmd.update THEN "list_write" ELSE "list_view"
        /\ UNCHANGED result
     \/ /\ Fail
        /\ UNCHANGED <<resp, entries>>
  /\ UNCHANGED <<cmd, pending, ioErr, files, tempInode, editorStatus, history, start, content,
                 new_entries, cache0, hist0>>

\* fs::write(file, json) is handed to the blocking pool and awaited
ListWrite ==
  /\ pc = "list_write"
  /\ result = "running"
  /\ pending = "none"
  /\ pending' = "cache_write"
  /\ pc' = "list_write_wait"
  /\ UNCHANGED <<cmd, result, ioErr, files, tempInode, editorStatus, locals, cache0, hist0>>

\* std::fs::write on the blocking thread: create/truncate, then write_all
BlockingCacheWrite ==
  /\ pending = "cache_write"
  /\ pending' = "none"
  /\ \/ /\ cacheFile' = ToJson(entries)
        /\ ioErr' = FALSE
     \/ /\ cacheFile' \in PartialWrites(ToJson(entries))
        /\ ioErr' = TRUE
     \/ /\ cacheFile' = cacheFile
        /\ ioErr' = TRUE
  /\ UNCHANGED <<pc, cmd, result, historyFile, scratchFile, tempInode, editorStatus, locals,
                 cache0, hist0>>

\* a failed write is reported on stderr only; the history is printed
ListView ==
  /\ \/ pc = "list_view"
     \/ pc = "list_write_wait" /\ pending = "none"
  /\ result = "running"
  /\ result' = "ok"
  /\ pc' = "done"
  /\ UNCHANGED <<cmd, pending, ioErr, files, tempInode, editorStatus, locals, cache0, hist0>>

(* ------------------------ select! in main ------------------------------ *)
\* signal::ctrl_c() completes first: the future of Command::run is dropped
CtrlC ==
  /\ result = "running"
  /\ pc \notin {"idle", "done"}
  /\ result' = "cancelled"
  /\ pc' = "done"
  /\ UNCHANGED <<cmd, pending, ioErr, files, tempInode, editorStatus, locals, cache0, hist0>>

\* the bluetooth background task completes first
BgTaskExit ==
  /\ result = "running"
  /\ pc \notin {"idle", "done"}
  /\ result' = "cancelled"
  /\ pc' = "done"
  /\ UNCHANGED <<cmd, pending, ioErr, files, tempInode, editorStatus, locals, cache0, hist0>>

\* main returns; the runtime waits for the blocking pool, the process exits
Exit ==
  /\ pc = "done"
  /\ pending = "none"
  /\ pc' = "idle"
  /\ cmd' = NoCmd
  /\ result' = "running"
  /\ ioErr' = FALSE
  /\ tempInode' = Absent
  /\ editorStatus' = None
  /\ entries' = <<>>
  /\ history' = <<>>
  /\ start' = 0
  /\ resp' = <<>>
  /\ content' = <<>>
  /\ new_entries' = <<>>
  /\ cache0' = cacheFile
  /\ hist0' = historyFile
  /\ UNCHANGED <<pending, files>>

(* --------------------------- history edit ------------------------------ *)
\* the process is started with `history edit [--start-id ID] [--end-id ID]`
StartEdit ==
  /\ pc = "idle"
  /\ \E s \in StartArgs, e \in EndArgs :
       cmd' = [kind |-> "edit", start_id |-> s, end_id |-> e]
  /\ pc' = "edit_load"
  /\ cache0' = cacheFile
  /\ hist0' = historyFile
  /\ UNCHANGED <<result, pending, ioErr, files, tempInode, editorStatus, locals>>

\* load_history, then the choice of the start id
EditLoad ==
  /\ pc = "edit_load"
  /\ result = "running"
  /\ \/ /\ historyFile = Absent
        /\ history' = <<>>
        /\ start' = EditStartId(cmd.start_id, history')
        /\ pc' = "edit_fetch"
        /\ UNCHANGED result
     \/ /\ historyFile # Absent
        /\ \E r \in FromYaml(historyFile) :
             \/ /\ r.ok
                /\ history' = r.val
                /\ start' = EditStartId(cmd.start_id, history')
                /\ pc' = "edit_fetch"
                /\ UNCHANGED result
             \/ /\ ~r.ok
                /\ Fail
                /\ UNCHANGED <<history, start>>
     \/ /\ historyFile # Absent
        \* read_to_string fails with an error other than NotFound
        /\ Fail
        /\ UNCHANGED <<history, start>>
  /\ UNCHANGED <<cmd, pending, ioErr, files, tempInode, editorStatus, entries, resp, content,
                 new_entries, cache0, hist0>>

\* read_history_since, conversion to EntryEdit, serialisation
EditFetch ==
  /\ pc = "edit_fetch"
  /\ result = "running"
  /\ \/ \* the model stops here when the history file is close to its cap
        /\ FileLen(historyFile) + MaxId <= MaxHistoryLen
        /\ \E u \in ReadHistorySince(start) :
             /\ resp' = u
             /\ entries' = MapEntryEdit(u)
             /\ content' = ToYaml(entries')
        /\ pc' = "edit_scratch"
        /\ UNCHANGED result
     \/ /\ Fail
        /\ UNCHANGED <<resp, entries, content>>
  /\ UNCHANGED <<cmd, pending, ioErr, files, tempInode, editorStatus, history, start,
                 new_entries, cache0, hist0>>

\* the scratch file is opened with create_new and the export written to it
EditCreateScratch ==
  /\ pc = "edit_scratch"
  /\ result = "running"
  /\ \/ /\ scratchFile # Absent
        \* create_new: AlreadyExists
        /\ Fail
        /\ UNCHANGED <<scratchFile, tempInode, editorStatus>>
     \/ /\ scratchFile = Absent
        \* the directory or the file cannot be created
        /\ Fail
        /\ UNCHANGED <<scratchFile, tempInode, editorStatus>>
     \/ /\ scratchFile = Absent
        /\ \E w \in WriteOutcomes(content) :
             /\ scratchFile' = w
             /\ tempInode' = w
        /\ pc' = "edit_editor"
        /\ UNCHANGED <<result, editorStatus>>
  /\ UNCHANGED <<cmd, pending, ioErr, cacheFile, historyFile, locals, cache0, hist0>>

\* exit codes of the editor process
ExitCodes == {0, 1}

\* variant: a non-zero exit code of the editor ends the session with an error
EditorOutcomeChecked(code) ==
  IF code = 0 THEN [pc |-> "edit_reload", result |-> "running"]
  ELSE [pc |-> "done", result |-> "err"]

\* process::Command::status().await?: Ok whatever the exit code is
EditorOutcome(code) == [pc |-> "edit_reload", result |-> "running"]

\* the editor is spawned on the scratch path and awaited; its exit status is
\* not looked at
EditEditor ==
  /\ pc = "edit_editor"
  /\ result = "running"
  /\ \/ /\ \E t \in EditorTexts(scratchFile) :
             \/ \* the editor rewrites the file in place
                /\ scratchFile' = t
                /\ tempInode' = t
             \/ \* the editor writes a new file and renames it over the path
                /\ scratchFile' = t
                /\ tempInode' = tempInode
        /\ \E code \in ExitCodes :
             /\ editorStatus' = Some(code)
             /\ pc' = EditorOutcome(code).pc
             /\ result' = EditorOutcome(code).result
     \/ \* the editor cannot be launched
        /\ Fail
        /\ UNCHANGED <<scratchFile, tempInode, editorStatus>>
  /\ UNCHANGED <<cmd, pending, ioErr, cacheFile, historyFile, locals, cache0, hist0>>

\* variant: a text that does not parse falls back to the exported entries
EditReloadNoCheck ==
  /\ pc = "edit_reload"
  /\ result = "running"
  /\ \/ /\ content' = tempInode
        /\ \E r \in FromYaml(content') :
             \/ /\ r.ok
                /\ r.val # <<>>
                /\ new_entries' = r.val
                /\ pc' = "edit_commit"
                /\ UNCHANGED result
             \/ /\ r.ok
                /\ r.val = <<>>
                /\ new_entries' = r.val
                /\ result' = "panic"
                /\ pc' = "done"
             \/ /\ ~r.ok
                /\ entries # <<>>
                /\ new_entries' = entries
                /\ pc' = "edit_commit"
                /\ UNCHANGED result
     \/ /\ Fail
        /\ UNCHANGED <<content, new_entries>>
  /\ UNCHANGED <<cmd, pending, ioErr, files, tempInode, editorStatus, entries, history, start,
                 resp, cache0, hist0>>

\* sync_data, seek to 0 and read_to_string on the handle temp_file, then the
\* parse of the text and new_entries.last().unwrap()
EditReload ==
  /\ pc = "edit_reload"
  /\ result = "running"
  /\ \/ /\ content' = tempInode
        /\ \E r \in FromYaml(content') :
             \/ /\ r.ok
                /\ r.val # <<>>
                /\ new_entries' = r.val
                /\ pc' = "edit_commit"
                /\ UNCHANGED result
             \/ /\ r.ok
                /\ r.val = <<>>
                \* unwrap() on None
                /\ new_entries' = r.val
                /\ result' = "panic"
                /\ pc' = "done"
             \/ /\ ~r.ok
                /\ Fail
                /\ UNCHANGED new_entries
     \/ \* sync_data, seek or read fails
        /\ Fail
        /\ UNCHANGED <<content, new_entries>>
  /\ UNCHANGED <<cmd, pending, ioErr, files, tempInode, editorStatus, entries, history, start,
                 resp, cache0, hist0>>

\* append_history: the open with create and append is handed to the blocking
\* pool and awaited
EditOpenHistory ==
  /\ pc = "edit_commit"
  /\ result = "running"
  /\ pending = "none"
  /\ pending' = "hist_open"
  /\ pc' = "edit_open_wait"
  /\ UNCHANGED <<cmd, result, ioErr, files, tempInode, editorStatus, locals, cache0, hist0>>

\* the open on the blocking thread; O_CREAT creates an empty file
BlockingHistOpen ==
  /\ pending = "hist_open"
  /\ pending' = "none"
  /\ \/ /\ historyFile' = IF historyFile = Absent THEN <<>> ELSE historyFile
        /\ ioErr' = FALSE
     \/ /\ historyFile' = historyFile
        /\ ioErr' = TRUE
  /\ UNCHANGED <<pc, cmd, result, cacheFile, scratchFile, tempInode, editorStatus, locals,
                 cache0, hist0>>

\* append_history: file.write(content) copies the bytes it accepts into the
\* buffer of the file, hands the write to the blocking pool and returns at
\* once; append_history and Command::run return Ok
EditWriteHistory ==
  /\ pc = "edit_open_wait"
  /\ result = "running"
  /\ pending = "none"
  /\ \/ /\ ioErr
        /\ Fail
        /\ UNCHANGED pending
     \/ /\ ~ioErr
        /\ pending' = "hist_write"
        /\ result' = "ok"
        /\ pc' = "done"
  /\ UNCHANGED <<cmd, ioErr, files, tempInode, editorStatus, locals, cache0, hist0>>

\* the buffered write on the blocking thread; nobody looks at its result
BlockingHistWrite ==
  /\ pending = "hist_write"
  /\ pending' = "none"
  /\ \/ \E w \in WriteOutcomes(ToYaml(new_entries)) :
          historyFile' = Appended(historyFile, w)
     \/ \* the write fails before the first byte
        historyFile' = historyFile
  /\ UNCHANGED <<pc, cmd, result, ioErr, cacheFile, scratchFile, tempInode, editorStatus,
                 locals, cache0, hist0>>

\* outside the program: the user removes the scratch file a session left
RemoveScratch ==
  /\ pc = "idle"
  /\ scratchFile # Absent
  /\ scratchFile' = Absent
  /\ UNCHANGED <<pc, cmd, result, pending, ioErr, cacheFile, historyFile,
                 tempInode, editorStatus, locals, cache0, hist0>>

NextList ==
  \/ StartList
  \/ ListLoad
  \/ ListFetch
  \/ ListWrite
  \/ BlockingCacheWrite
  \/ ListView
  \/ CtrlC
  \/ BgTaskExit
  \/ Exit

SpecList == Init /\ [][NextList]_vars

NextEdit ==
  \/ StartEdit
  \/ EditLoad
  \/ EditFetch
  \/ EditCreateScratch
  \/ EditEditor
  \/ EditReload
  \/ EditOpenHistory
  \/ BlockingHistOpen
  \/ EditWriteHistory
  \/ BlockingHistWrite
  \/ RemoveScratch
  \/ CtrlC
  \/ BgTaskExit
  \/ Exit

SpecEdit == Init /\ [][NextEdit]_vars

Next == NextList \/ NextEdit

Spec == Init /\ [][Next]_vars

(* ------------------- the start id, for given files --------------------- *)
\* lists of at most n entries with ids in Ids, in any order, ids may repeat
RECURSIVE SeqsUpTo(_, _)
SeqsUpTo(S, n) ==
  IF n = 0 THEN {<<>>}
  ELSE LET shorter == SeqsUpTo(S, n - 1)
       IN shorter \cup { Append(q, x) : q \in { r \in shorter : Len(r) = n - 1 }, x \in S }

StoredEntries == { MkEntry(i, p) : i \in Ids, p \in Payloads }

\* the --update files an earlier `history list --update` leaves
CacheTexts ==
  {Absent} \cup { ToJson(l) : l \in { q \in SeqsUpTo(StoredEntries, MaxId) : DistinctIds(q) } }

\* the history files earlier `history edit` sessions leave
HistoryTexts ==
  {Absent} \cup
    { ToYaml(MapEntryEdit(l)) : l \in SeqsUpTo(StoredEntries, MaxId) \ {<<>>} }

InitStart ==
  /\ pc = "idle"
  /\ cmd = NoCmd
  /\ result = "running"
  /\ pending = "none"
  /\ ioErr = FALSE
  /\ cacheFile \in CacheTexts
  /\ historyFile \in HistoryTexts
  /\ scratchFile = Absent
  /\ tempInode = Absent
  /\ editorStatus = None
  /\ entries = <<>>
  /\ history = <<>>
  /\ start = 0
  /\ resp = <<>>
  /\ content = <<>>
  /\ new_entries = <<>>
  /\ cache0 = cacheFile
  /\ hist0 = historyFile

NextStart ==
  \/ StartList
  \/ ListLoad
  \/ StartEdit
  \/ EditLoad

\* both commands up to the call of read_history_since, from any persisted files
SpecStart == InitStart /\ [][NextStart]_vars

(* ============================== claims ================================= *)
\* the entries `history list` loaded from the --update file, before the merge
ListExisting ==
  IF cmd.kind = "list" /\ cmd.update /\ cache0 # Absent /\ FromJson(cache0).ok
  THEN SortById(FromJson(cache0).val)
  ELSE <<>>

\* `history list` has merged the fetched entries into `entries`
ListMerged ==
  /\ cmd.kind = "list"
  /\ result = "running"
  /\ pc \in {"list_write", "list_view"}

WithId(s, i) == { s[k] : k \in { j \in 1..Len(s) : s[j].id = i } }

MaxIdOf(s) == CHOOSE m \in IdsOf(s) : \A i \in IdsOf(s) : i <= m

C2_MergedAscending ==
  ListMerged =>
    /\ IdsOf(entries) = IdsOf(ListExisting) \cup IdsOf(resp)
    /\ DistinctIds(entries)
    /\ StrictlyAscending(entries)

\* C3: merging the incoming batch again into the merged list (directly, or
\* after the merged list went through the --update file and was loaded and
\* sorted) gives the merged list again.
C3_MergeIdempotent ==
  ListMerged =>
    /\ Merge(entries, resp) = entries
    /\ FromJson(ToJson(entries)).ok
    /\ Merge(SortById(FromJson(ToJson(entries)).val), resp) = entries

\* a batch was merged into a list that shares an id with it and has another
C3_Witness ==
  /\ ListMerged
  /\ IdsOf(ListExisting) \cap IdsOf(resp) # {}
  /\ IdsOf(ListExisting) \ IdsOf(resp) # {}

\* `history list` / `history edit` is about to call read_history_since
ListAtFetch == cmd.kind = "list" /\ result = "running" /\ pc = "list_fetch"
EditAtFetch == cmd.kind = "edit" /\ result = "running" /\ pc = "edit_fetch"

Content(f) == IF f = Absent THEN <<>> ELSE f

\* an edit session has ended and every write it started is finished
EditEnded == cmd.kind = "edit" /\ pc = "done" /\ pending = "none"

\* the session went through append_history and its write is finished
EditCommitted == EditEnded /\ result = "ok"

\* C5 (as stated): after append_history the history file holds the prior
\* content, or the prior content followed by the complete batch, never the
\* prior content followed by a part of the batch.
C5_AllOrNothing ==
  EditEnded =>
    \/ Content(historyFile) = Content(hist0)
    \/ Content(historyFile) = Content(hist0) \o ToYaml(new_entries)

\* C6 (as stated): when an invocation ends, whether it completed, failed or was
\* cancelled, the cache file and the history file each hold the complete old
\* or the complete new content.
C6_NoPartialFileAtExit ==
  (pc = "done" /\ pending = "none") =>
    /\ \/ cacheFile = cache0
       \/ cacheFile = ToJson(entries)
    /\ \/ Content(historyFile) = Content(hist0)
       \/ \E r \in FromYaml(Content(hist0)) :
            r.ok /\ Content(historyFile) = ToYaml(r.val \o new_entries)

\* C7 (as stated): the history store is a list of entries with pairwise
\* distinct ids in strictly ascending order, after any edit sessions.
C7_StoreAscending ==
  pc = "idle" =>
    \A r \in FromYaml(Content(historyFile)) : r.ok => StrictlyAscending(r.val)

\* the editor left the scratch text as it was exported, and the session went on
\* to its end
NoOpEdit ==
  /\ EditCommitted
  /\ scratchFile = ToYaml(entries)
  /\ content = ToYaml(entries)

\* C8 (as stated): after a session with a no-op edit the store holds its
\* previous entries followed by one entry per fetched id, no id twice.
C8_NoOpEditAddsFetched ==
  NoOpEdit =>
    \A r0 \in FromYaml(Content(hist0)) :
      r0.ok =>
        /\ FromYaml(Content(historyFile)) = {Ok(r0.val \o MapEntryEdit(resp))}
        /\ DistinctIds(r0.val \o MapEntryEdit(resp))

\* the export of an edit session is computed
EditExported ==
  cmd.kind = "edit" /\ result = "running" /\ pc = "edit_scratch"

\* C9 (as stated): every exported entry has an id in [start_id, end_id]; with
\* --end-id no exported entry has a larger id.
C9_ExportWithinRange ==
  EditExported =>
    \A i \in IdsOf(entries) :
      /\ i >= start
      /\ cmd.end_id # None => i <= cmd.end_id[1]

\* append_history wrote the whole of new_entries to the history file
WroteAll == Content(historyFile) = Content(hist0) \o ToYaml(new_entries)

\* C10 (as stated): loading the history file right after append_history wrote
\* the whole list L to it returns exactly L, whatever the file held before.
C10_LoadAfterPersist ==
  EditCommitted /\ WroteAll => FromYaml(Content(historyFile)) = {Ok(new_entries)}

\* a history file text that is no YAML list: it holds a broken-off record, or
\* "[]" next to something else
YamlCorrupt(text) ==
  /\ text # Absent
  /\ \/ \E i \in 1..Len(text) : text[i].t = "frag"
     \/ Len(text) > 1 /\ \E i \in 1..Len(text) : text[i].t = "[]"

\* the list a history file text that is not corrupt stands for
YamlList(text) ==
  IF text = Absent \/ text = <<>> \/ text = <<YEmpty>> THEN <<>>
  ELSE [i \in 1..Len(text) |-> text[i].e]

\* a cache file text that is no JSON array
JsonCorrupt(text) ==
  /\ text # Absent
  /\ \/ Len(text) < 2
     \/ text[1].t # "["
     \/ text[Len(text)].t # "]"
     \/ \E i \in 2..(Len(text) - 1) : text[i].t # "entry"

\* the list a cache file text that is not corrupt stands for
JsonList(text) ==
  IF text = Absent THEN <<>>
  ELSE [i \in 1..(Len(text) - 2) |-> text[i + 1].e]

C11_ListCase ==
  /\ cmd.kind = "list"
  /\ cmd.update
  /\ JsonCorrupt(cache0)
  /\ pc = "done"
  /\ result = "err"

\* C12 (as stated): a command whose write of a persisted file failed ends with
\* an error: `history list --update` when the write of the cache file failed,
\* `history edit` when the history file does not hold the whole batch.
C12_WriteFailureFatal ==
  (pc = "done" /\ pending = "none" /\ result # "cancelled") =>
    /\ (cmd.kind = "list" /\ ioErr) => result = "err"
    /\ (cmd.kind = "edit" /\ result = "ok") => WroteAll

\* C13 (as stated): with --start-with and an --update file that holds an
\* entry, `history list` reads the device from the id of the file's latest
\* entry (that id, or the one after it), not from the --start-with value.
C13_UpdateFilePrecedence ==
  (ListAtFetch /\ cmd.update /\ cmd.start_with # None /\ entries # <<>>) =>
    start \in {Last(entries).id, Last(entries).id + 1}

\* C14: a step from AwaitingEditor in which the editor process has run and
\* exited, with whatever exit code, takes the session to Reloading; a step from
\* AwaitingEditor that fails the session is one in which no editor process ran.
C14_EditorExitIgnored ==
  [][(cmd.kind = "edit" /\ pc = "edit_editor" /\ result = "running") =>
       /\ editorStatus' # None => (pc' = "edit_reload" /\ result' = "running")
       /\ result' = "err" => editorStatus' = None]_vars

\* the editor exited with a non-zero code and the session is in Reloading
C14_Witness ==
  /\ cmd.kind = "edit"
  /\ pc = "edit_reload"
  /\ result = "running"
  /\ editorStatus = Some(1)

\* C15 (as stated): the text that Reloading parsed is the content stored at
\* the scratch path when the editor exited, however the editor saved.
C15_ReloadReadsPath ==
  (cmd.kind = "edit" /\ result = "running" /\ pc = "edit_commit") =>
    content = scratchFile

\* C16 (as stated): a scratch file left by an earlier session does not make a
\* session fail on its way from Exporting to AwaitingEditor.
C16_LeftoverScratchHarmless ==
  [][(cmd.kind = "edit" /\ pc = "edit_scratch" /\ result = "running"
        /\ scratchFile # Absent) => result' # "err"]_vars

\* C17: an edit session that ended in failure has left the history file as it
\* was when the session started; whenever the history file differs from its
\* content at the start of the session, the text re-read from the scratch file
\* was a YAML list and the non-empty list parsed from it is what is written.
C17_FailureLeavesHistory ==
  cmd.kind = "edit" =>
    /\ result \in {"err", "panic"} => historyFile = hist0
    /\ historyFile # hist0 =>
         /\ pc \in {"edit_open_wait", "done"}
         /\ ~YamlCorrupt(content)
         /\ new_entries # <<>>
         /\ new_entries = YamlList(content)

\* a session on a history file that holds entries failed at the parse of the
\* edited text
C17_Witness ==
  /\ cmd.kind = "edit"
  /\ pc = "done"
  /\ result = "err"
  /\ YamlCorrupt(content)
  /\ hist0 # Absent
  /\ hist0 # <<>>

\* the session read from the scratch file a text that is no YAML list
EditParseFailed == cmd.kind = "edit" /\ YamlCorrupt(content)

\* C18 (as stated): a session whose re-read text does not parse ends in Failed
\* with the scratch file and its text still in place, and a session started
\* while the scratch file holds such a text is not failed by it and does not
\* replace it, so that the edit can be taken up again.
C18_ParseFailureKeepsEdits ==
  [][/\ EditParseFailed' =>
          (pc' = "done" /\ result' = "err" /\ scratchFile' # Absent)
     /\ (EditParseFailed /\ pc = "done") => scratchFile' = scratchFile
     /\ (cmd.kind = "edit" /\ pc = "edit_scratch" /\ result = "running"
           /\ YamlCorrupt(scratchFile)) =>
          (result' # "err" /\ scratchFile' = scratchFile)]_vars

\* the part of C18 that holds: the session is Failed, the scratch file stays
C18_FailedScratchKept ==
  [][/\ EditParseFailed' =>
          (pc' = "done" /\ result' = "err" /\ scratchFile' # Absent)
     /\ (EditParseFailed /\ pc = "done") => scratchFile' = scratchFile]_vars

IsPrefix(s, t) == Len(s) <= Len(t) /\ SubSeq(t, 1, Len(s)) = s

\* the entries recorded in a history file text, in file order
RECURSIVE EntriesIn(_)
EntriesIn(text) ==
  IF text = <<>> THEN <<>>
  ELSE IF Head(text).t = "entry" THEN <<Head(text).e>> \o EntriesIn(Tail(text))
  ELSE EntriesIn(Tail(text))

\* C19: every step of every edit session leaves the entries already in the
\* history file in place and unchanged: the text of the file before the step
\* is a prefix of its text after the step, and so is its sequence of entries.
C19_AppendOnly ==
  [][/\ IsPrefix(Content(historyFile), Content(historyFile'))
     /\ IsPrefix(EntriesIn(Content(historyFile)), EntriesIn(Content(historyFile')))]_vars

\* a session committed new entries to a history file that held entries
C19_Witness ==
  /\ EditCommitted
  /\ EntriesIn(Content(hist0)) # <<>>
  /\ EntriesIn(Content(historyFile)) # EntriesIn(Content(hist0))

\* C20 (as stated): a session whose text is the empty list (nothing fetched,
\* or every entry removed in the editor) ends in Committed or Failed, or is
\* cancelled, and leaves the history file as it was.
C20_EmptyListEndsNormally ==
  (cmd.kind = "edit" /\ pc = "done" /\ content = <<YEmpty>>) =>
    /\ result \in {"ok", "err", "cancelled"}
    /\ historyFile = hist0

====
